---- MODULE Spec2Model ----
(***************************************************************************)
(* Good Works Stopwatch: the day tracker of client/src/hooks/useGoodWorks  *)
(* (category store, single active stopwatch / countdown session) and the   *)
(* persistence layer of client/src/lib/utils.ts (current-day blob,         *)
(* historical log, export / import).                                       *)
(*                                                                         *)
(* Time is the wall clock in milliseconds (Date.now()); the calendar day   *)
(* (new Date().toDateString()) is kept as a day number next to it.         *)
(***************************************************************************)
EXTENDS Integers, Sequences, FiniteSets, TLC

\* ---------------------------------------------------------------- bounds
ClockStep == 500
MaxClockSteps == 4
MaxDay == 2
MaxIntervals == 2
MaxDuration == 2
ExtraDays == 1
MaxJumpSeconds == 2
MaxPeerSeconds == 2

\* ------------------------------------------------------ program constants
StopwatchPeriod == 1000
CountdownPeriod == 100
MaxHistory == 365
SnapshotVersion == 1
SampleDays == 28

\* ------------------------------------------------------------ value sets
\* Category names the user can type; "" and " " are empty after trimming.
Names == {"a", "b"}
BlankNames == {"", " "}
Colors == {"#4C8BF5", "#2BA24C"}
NoName == "<null>"

\* A name every plain object inherits from Object.prototype.
PrototypeNames == {"constructor"}
NoInterval == 0

\* String.prototype.trim on the names above.
Trim(s) == IF s \in BlankNames THEN "" ELSE s

\* JavaScript numbers that are not ordinary seconds: a missing field reads
\* as undefined, undefined + n is NaN, and JSON writes NaN as null.
Undefined == 0 - 1
NaN == 0 - 2
JsNullNumber == 0 - 3

\* prev[name].time + n
TimePlus(t, n) ==
  IF t >= 0 THEN t + n
  ELSE IF t = JsNullNumber THEN n
  ELSE NaN

\* Math.floor(x / 1000) and Math.ceil(x / 1000)
FloorSec(x) == x \div 1000
CeilSec(x) == 0 - ((0 - x) \div 1000)
Max(a, b) == IF a >= b THEN a ELSE b
Min(a, b) == IF a <= b THEN a ELSE b

\* ------------------------------------------------------ JSON and storage
\* A localStorage item is absent, unparsable text, or the text of a value.
Absent == [kind |-> "absent"]
Corrupt == [kind |-> "corrupt"]
JsonNull == [null |-> TRUE]

EmptyStore == [n \in {} |-> [time |-> 0, color |-> ""]]

\* JSON.stringify of one category entry: NaN is written as null, an
\* undefined time is left out (and reads back as undefined).
JsonEntry(e) == [time |-> IF e.time = NaN THEN JsNullNumber ELSE e.time, color |-> e.color]
JsonCategories(cats) == [n \in DOMAIN cats |-> JsonEntry(cats[n])]
JsonDay(d) == [date |-> d.date, categories |-> JsonCategories(d.categories)]
JsonLog(log) == [i \in 1..Len(log) |-> JsonDay(log[i])]

StringifyDay(d) == [kind |-> "json", val |-> JsonDay(d)]
StringifyLog(log) == [kind |-> "json", val |-> JsonLog(log)]

\* JSON.parse throws on unparsable text.
ParseThrows(raw) == raw.kind = "corrupt"
Parse(raw) == raw.val

VARIABLES
  app,            \* "closed" | "mounted" | "crashed" (render error, tree unmounted)
  categories,     \* useState categories: name -> [time, color]
  activeCategory, \* useState activeCategory
  intervalRef,    \* intervalRef.current
  intervals,      \* live window.setInterval timers with their closures
  nextId,         \* next handle window.setInterval returns
  now,            \* Date.now()
  day,            \* new Date().toDateString()
  storage,        \* localStorage: [today |-> goodWorksData, weekly |-> goodWorksWeekly]
  exported,       \* the file the last export downloaded
  exportedFrom,   \* history: localStorage as it was when that file was written
  peer,           \* a second tab of the app: [open, categories] (its useState store)
  signals,        \* completion signals requested since the last start
  session,        \* history: [startedAt, credited] of the last started session
  lastOp          \* history: the last operation and its outcome

vars == <<app, categories, activeCategory, intervalRef, intervals, nextId, now, day,
          storage, exported, exportedFrom, peer, signals, session, lastOp>>

Op(o, n, r) == [op |-> o, name |-> n, res |-> r]

\* ------------------------------------------------------------ persistence
\* localStorage.setItem / removeItem
SetItem(st, key, raw) == [st EXCEPT ![key] = raw]
RemoveItem(st, key) == [st EXCEPT ![key] = Absent]

\* saveData keeping the date of the record already stored.
saveDataKeepDate(st, cats, today) ==
  SetItem(st, "today",
          StringifyDay([date |-> IF st.today.kind = "json" THEN Parse(st.today).date
                                 ELSE today,
                        categories |-> cats]))

\* saveData merging what is stored into what it writes: a stored entry with
\* more time, or one the writer does not have, survives.
saveDataMerged(st, cats, today) ==
  LET old == IF st.today.kind = "json" THEN Parse(st.today).categories ELSE EmptyStore
      merged == [n \in DOMAIN cats \cup DOMAIN old |->
                  IF n \notin DOMAIN cats THEN old[n]
                  ELSE IF n \in DOMAIN old /\ old[n].time > cats[n].time THEN old[n]
                  ELSE cats[n]]
  IN  SetItem(st, "today", StringifyDay([date |-> today, categories |-> merged]))

\* saveData(categories): the current-day blob is rewritten with today's date.
saveData(st, cats, today) ==
  SetItem(st, "today", StringifyDay([date |-> today, categories |-> cats]))

\* Object.values(dayData.categories).some(cat => cat.time > 0)
hasActivity(dayData) ==
  \E n \in DOMAIN dayData.categories : dayData.categories[n].time > 0

\* The cap keeping the oldest 365 entries instead of the newest.
KeepFirst(weekly) ==
  IF Len(weekly) > MaxHistory THEN SubSeq(weekly, 1, MaxHistory) ELSE weekly

\* weekly.slice(weekly.length - 365) once the log is longer than 365
KeepLast(weekly) ==
  IF Len(weekly) > MaxHistory
  THEN SubSeq(weekly, Len(weekly) - MaxHistory + 1, Len(weekly))
  ELSE weekly

\* The log archiveDay starts from: the parsed weekly blob, [] when the blob
\* is missing or does not parse.
WeeklyOrEmpty(st) ==
  IF st.weekly.kind = "json" THEN Parse(st.weekly) ELSE <<>>

\* archiveDay appending the day whether or not it has activity.
archiveDayAlways(st, dayData) ==
  RemoveItem(SetItem(st, "weekly",
                     StringifyLog(KeepLast(Append(WeeklyOrEmpty(st), dayData)))),
             "today")

\* archiveDay giving up on a log that does not parse: the log is left as it
\* is.
archiveDayKeepCorrupt(st, dayData) ==
  LET archived ==
        IF hasActivity(dayData) /\ ~ParseThrows(st.weekly)
        THEN SetItem(st, "weekly",
                     StringifyLog(KeepLast(Append(WeeklyOrEmpty(st), dayData))))
        ELSE st
  IN  RemoveItem(archived, "today")

\* archiveDay pushing the day twice.
archiveDayTwice(st, dayData) ==
  LET archived ==
        IF hasActivity(dayData)
        THEN SetItem(st, "weekly",
                     StringifyLog(KeepLast(Append(Append(WeeklyOrEmpty(st), dayData),
                                                  dayData))))
        ELSE st
  IN  RemoveItem(archived, "today")

\* archiveDay putting the day at the head of the log (unshift for push).
archiveDayNewestFirst(st, dayData) ==
  LET archived ==
        IF hasActivity(dayData)
        THEN SetItem(st, "weekly",
                     StringifyLog(KeepLast(<<dayData>> \o WeeklyOrEmpty(st))))
        ELSE st
  IN  RemoveItem(archived, "today")

\* archiveDay(dayData): append when the day has activity, cap the log,
\* always remove the current-day blob.
archiveDay(st, dayData) ==
  LET archived ==
        IF hasActivity(dayData)
        THEN SetItem(st, "weekly",
                     StringifyLog(KeepLast(Append(WeeklyOrEmpty(st), dayData))))
        ELSE st
  IN  RemoveItem(archived, "today")

\* loadWeeklyData(): the parsed log, [] when missing or unparsable.
loadWeeklyData(st) == WeeklyOrEmpty(st)

\* loadTodayData carrying yesterday's categories over instead of starting
\* fresh.
loadTodayDataKeep(st, today) ==
  IF st.today.kind = "absent"
  THEN [throws |-> FALSE, categories |-> EmptyStore, storage |-> st, res |-> "fresh"]
  ELSE IF ParseThrows(st.today)
  THEN [throws |-> TRUE, categories |-> EmptyStore, storage |-> st, res |-> "crash"]
  ELSE LET parsed == Parse(st.today) IN
       IF parsed.date # today
       THEN [throws |-> FALSE,
             categories |-> [n \in DOMAIN parsed.categories |->
                              [time |-> 0, color |-> parsed.categories[n].color]],
             storage |-> archiveDay(st, parsed), res |-> "rollover"]
       ELSE [throws |-> FALSE, categories |-> parsed.categories,
             storage |-> st, res |-> "resumed"]

\* loadTodayData without the date test: whatever is stored is archived.
loadTodayDataArchiveAlways(st, today) ==
  IF st.today.kind = "absent"
  THEN [throws |-> FALSE, categories |-> EmptyStore, storage |-> st, res |-> "fresh"]
  ELSE IF ParseThrows(st.today)
  THEN [throws |-> TRUE, categories |-> EmptyStore, storage |-> st, res |-> "crash"]
  ELSE [throws |-> FALSE, categories |-> EmptyStore,
        storage |-> archiveDay(st, Parse(st.today)), res |-> "rollover"]

\* loadTodayData(): [throws, categories, storage afterwards]; res tells the
\* cases apart ("recovered": a day was archived over an unparsable log).
loadTodayData(st, today) ==
  IF st.today.kind = "absent"
  THEN [throws |-> FALSE, categories |-> EmptyStore, storage |-> st, res |-> "fresh"]
  ELSE IF ParseThrows(st.today)
  THEN [throws |-> TRUE, categories |-> EmptyStore, storage |-> st, res |-> "crash"]
  ELSE LET parsed == Parse(st.today) IN
       IF parsed.date # today
       THEN [throws |-> FALSE, categories |-> EmptyStore,
             storage |-> archiveDay(st, parsed),
             res |-> IF ParseThrows(st.weekly) /\ hasActivity(parsed)
                     THEN "recovered" ELSE "rollover"]
       ELSE [throws |-> FALSE, categories |-> parsed.categories,
             storage |-> st, res |-> "resumed"]

\* ------------------------------------------------------------------ timers
\* window.clearInterval(id)
ClearInterval(ivs, id) == {iv \in ivs : iv.id # id}

\* stopActive forgetting to clear the running interval.
ClearCurrentLeak(ivs, ref) == ivs

\* if (intervalRef.current) window.clearInterval(intervalRef.current)
ClearCurrent(ivs, ref) ==
  IF ref # NoInterval THEN ClearInterval(ivs, ref) ELSE ivs

NoSession == [startedAt |-> 0, seconds |-> 0, credited |-> 0]
NoPeer == [open |-> FALSE, categories |-> EmptyStore]

Init ==
  /\ app = "closed"
  /\ categories = EmptyStore
  /\ activeCategory = NoName
  /\ intervalRef = NoInterval
  /\ intervals = {}
  /\ nextId = 1
  /\ now = 0
  /\ day = 0
  /\ storage = [today |-> Absent, weekly |-> Absent]
  /\ exported = Absent
  /\ exportedFrom = [today |-> Absent, weekly |-> Absent]
  /\ peer = NoPeer
  /\ signals = 0
  /\ session = NoSession
  /\ lastOp = Op("init", NoName, "ok")

\* A render error (a throwing state updater or mount effect) unmounts the
\* tree; the unmount cleanup clears the current interval.
Crash(o, n) ==
  /\ app' = "crashed"
  /\ intervals' = ClearCurrent(intervals, intervalRef)
  /\ lastOp' = Op(o, n, "crash")

\* Opening or reloading the page: memory starts afresh (no timer of the old
\* page survives), the first mount effect loads the day and the save effect
\* writes the loaded store through under today's date. A throw in the load
\* effect skips the save effect of the same component: storage stays as it is.
Load ==
  LET r == loadTodayData(storage, day) IN
  /\ activeCategory' = NoName
  /\ intervalRef' = NoInterval
  /\ intervals' = {}
  /\ nextId' = 1
  /\ signals' = 0
  /\ session' = NoSession
  /\ lastOp' = Op("load", NoName, r.res)
  /\ IF r.throws
     THEN /\ app' = "crashed"
          /\ categories' = EmptyStore
          /\ storage' = r.storage
     ELSE /\ app' = "mounted"
          /\ categories' = r.categories
          /\ storage' = saveData(r.storage, r.categories, day)
  /\ UNCHANGED <<now, day, exported, exportedFrom, peer>>

\* ------------------------------------------------------- session control
\* stopActive forgetting the active category without clearing the interval.
stopActiveKeepsInterval ==
  /\ app = "mounted"
  /\ activeCategory' = NoName
  /\ lastOp' = Op("stopActive", NoName, IF intervals # {} THEN "stopped" ELSE "idle")
  /\ UNCHANGED <<app, categories, intervals, intervalRef, nextId, now, day, storage,
                 exported, exportedFrom, peer, signals, session>>

\* stopActive(): clear the current interval, forget the active category.
stopActive ==
  /\ app = "mounted"
  /\ intervals' = ClearCurrent(intervals, intervalRef)
  /\ intervalRef' = NoInterval
  /\ activeCategory' = NoName
  /\ lastOp' = Op("stopActive", NoName, IF intervals # {} THEN "stopped" ELSE "idle")
  /\ UNCHANGED <<app, categories, nextId, now, day, storage, exported, exportedFrom, peer,
                 signals, session>>

\* The closure window.setInterval keeps alive, and when it may next fire.
StopwatchInterval(id, name, t) ==
  [id |-> id, mode |-> "stopwatch", name |-> name, startTime |-> 0, endTime |-> 0,
   elapsedIntervals |-> 0, due |-> t + StopwatchPeriod]

CountdownInterval(id, name, seconds, t) ==
  [id |-> id, mode |-> "countdown", name |-> name, startTime |-> t,
   endTime |-> t + seconds * 1000, elapsedIntervals |-> 0, due |-> t + CountdownPeriod]

\* What both start calls do around their interval: stopActive() first, then
\* the new interval becomes the current one.
StartSession(o, name, seconds, iv) ==
  /\ app = "mounted"
  /\ nextId <= MaxIntervals
  /\ intervals' = ClearCurrent(intervals, intervalRef) \cup {iv}
  /\ intervalRef' = iv.id
  /\ nextId' = nextId + 1
  /\ activeCategory' = name
  /\ signals' = 0
  /\ session' = [startedAt |-> now, seconds |-> seconds, credited |-> 0]
  /\ lastOp' = Op(o, name, IF intervals # {} THEN "switched" ELSE "started")
  /\ UNCHANGED <<app, categories, now, day, storage, exported, exportedFrom, peer>>

\* startCategory(name)
startCategory(name) ==
  StartSession("startCategory", name, 0, StopwatchInterval(nextId, name, now))

\* startTimer(name, seconds)
startTimer(name, seconds) ==
  StartSession("startTimer", name, seconds, CountdownInterval(nextId, name, seconds, now))

\* ------------------------------------------------------------------ ticks
\* setCategories(prev => ({...prev, [name]: {...prev[name], time: prev[name].time + n}}))
CreditTime(cats, name, n) ==
  [cats EXCEPT ![name] = [time |-> TimePlus(cats[name].time, n), color |-> cats[name].color]]

\* prev[name].time throws a TypeError when prev has no entry for name.
CreditThrows(cats, name) == name \notin DOMAIN cats

Rescheduled(iv, period) == [iv EXCEPT !.due = now + period]

\* The stopwatch callback (every 1000 ms, possibly late): one second per call.
StopwatchTick(iv) ==
  /\ iv \in intervals
  /\ iv.mode = "stopwatch"
  /\ now >= iv.due
  /\ IF CreditThrows(categories, iv.name)
     THEN /\ Crash("stopwatchTick", iv.name)
          /\ UNCHANGED <<categories, activeCategory, intervalRef, storage, session>>
     ELSE /\ categories' = CreditTime(categories, iv.name, 1)
          /\ storage' = saveData(storage, categories', day)
          /\ intervals' = (intervals \ {iv}) \cup {Rescheduled(iv, StopwatchPeriod)}
          /\ session' = [session EXCEPT !.credited = @ + 1]
          /\ lastOp' = Op("stopwatchTick", iv.name, "credited")
          /\ UNCHANGED <<app, activeCategory, intervalRef>>
  /\ UNCHANGED <<nextId, now, day, exported, exportedFrom, peer, signals>>

\* The countdown callback's arithmetic (lines 307-315).
remaining(iv, t) == Max(0, CeilSec(iv.endTime - t))
expectedElapsed(iv, t) == FloorSec(t - iv.startTime)

\* The increment taken from the start instead of from the seconds already
\* credited.
incrementFromStart(iv, t) == expectedElapsed(iv, t)

increment(iv, t) == expectedElapsed(iv, t) - iv.elapsedIntervals

\* The credit guard without the remaining > 0 test.
CreditsPastDeadline(iv, t) == increment(iv, t) > 0

Credits(iv, t) == increment(iv, t) > 0 /\ remaining(iv, t) > 0

\* The completion test with > in place of >=.
CompletesLate(iv, t) == t > iv.endTime

Completes(iv, t) == t >= iv.endTime

\* The countdown callback (every 100 ms, possibly late).
CountdownTick(iv) ==
  LET credits == Credits(iv, now)
      done == Completes(iv, now)
      throws == credits /\ CreditThrows(categories, iv.name)
      after == IF credits
               THEN [Rescheduled(iv, CountdownPeriod)
                       EXCEPT !.elapsedIntervals = expectedElapsed(iv, now)]
               ELSE Rescheduled(iv, CountdownPeriod)
      ticked == (intervals \ {iv}) \cup {after}
      \* window.clearInterval(intervalRef.current!); intervalRef.current = null
      live == IF done THEN ClearCurrent(ticked, intervalRef) ELSE ticked
  IN
  /\ iv \in intervals
  /\ iv.mode = "countdown"
  /\ now >= iv.due
  /\ signals' = IF done THEN signals + 1 ELSE signals
  /\ intervalRef' = IF done THEN NoInterval ELSE intervalRef
  /\ activeCategory' = IF done THEN NoName ELSE activeCategory
  /\ IF throws
     THEN /\ app' = "crashed"
          /\ intervals' = ClearCurrent(live, intervalRef')
          /\ lastOp' = Op("countdownTick", iv.name, "crash")
          /\ UNCHANGED <<categories, storage, session>>
     ELSE /\ intervals' = live
          /\ categories' = IF credits
                            THEN CreditTime(categories, iv.name, increment(iv, now))
                            ELSE categories
          /\ storage' = IF credits THEN saveData(storage, categories', day) ELSE storage
          /\ session' = IF credits
                         THEN [session EXCEPT !.credited = @ + increment(iv, now)]
                         ELSE session
          /\ lastOp' = Op("countdownTick", iv.name,
                          IF done THEN "completed"
                          ELSE IF credits THEN "credited" ELSE "waiting")
          /\ UNCHANGED app
  /\ UNCHANGED <<nextId, now, day, exported, exportedFrom, peer>>

\* ---------------------------------------------------------- category store
Put(cats, name, entry) ==
  [k \in DOMAIN cats \cup {name} |-> IF k = name THEN entry ELSE cats[k]]
Remove(cats, name) == [k \in DOMAIN cats \ {name} |-> cats[k]]

\* if (categories[name]): the lookup follows the prototype chain, and what it
\* finds there is truthy too.
Truthy(cats, name) == name \in DOMAIN cats \/ name \in PrototypeNames

\* A call that returns false before any setState: nothing changes.
Rejected(o, name) ==
  /\ lastOp' = Op(o, name, "false")
  /\ UNCHANGED <<app, categories, activeCategory, intervalRef, intervals, storage>>

\* addCategory(name, color)
addCategory(name, color) ==
  /\ app = "mounted"
  /\ IF Trim(name) = "" \/ Truthy(categories, name)
     THEN Rejected("addCategory", name)
     ELSE /\ categories' = Put(categories, name, [time |-> 0, color |-> color])
          /\ storage' = saveData(storage, categories', day)
          /\ lastOp' = Op("addCategory", name, "true")
          /\ UNCHANGED <<app, activeCategory, intervalRef, intervals>>
  /\ UNCHANGED <<nextId, now, day, exported, exportedFrom, peer, signals, session>>

\* The edited entry starting again from time 0.
RecolouredReset(cats, oldName, newColor) == [time |-> 0, color |-> newColor]

\* { ...updated[oldName] } with the colour replaced; a missing entry spreads
\* to an object without a time.
Recoloured(cats, oldName, newColor) ==
  [time |-> IF oldName \in DOMAIN cats THEN cats[oldName].time ELSE Undefined,
   color |-> newColor]

\* The updater editCategory passes to setCategories.
Renamed(cats, oldName, newName, newColor) ==
  IF oldName # newName
  THEN Put(Remove(cats, oldName), newName, Recoloured(cats, oldName, newColor))
  ELSE Put(cats, oldName, Recoloured(cats, oldName, newColor))

\* editCategory(oldName, newName, newColor)
editCategory(oldName, newName, newColor) ==
  /\ app = "mounted"
  /\ IF \/ Trim(oldName) = ""
        \/ Trim(newName) = ""
        \/ (oldName # newName /\ Truthy(categories, newName))
     THEN Rejected("editCategory", oldName)
     ELSE /\ categories' = Renamed(categories, oldName, newName, newColor)
          /\ activeCategory' = IF oldName # newName /\ activeCategory = oldName
                                THEN newName ELSE activeCategory
          /\ storage' = saveData(storage, categories', day)
          /\ lastOp' = Op("editCategory", oldName,
                          IF oldName # newName THEN "renamed" ELSE "recoloured")
          /\ UNCHANGED <<app, intervalRef, intervals>>
  /\ UNCHANGED <<nextId, now, day, exported, exportedFrom, peer, signals, session>>

\* deleteCategory(name)
deleteCategory(name) ==
  /\ app = "mounted"
  /\ IF Trim(name) = "" \/ ~Truthy(categories, name)
     THEN Rejected("deleteCategory", name)
     ELSE /\ intervals' = IF activeCategory = name
                           THEN ClearCurrent(intervals, intervalRef) ELSE intervals
          /\ intervalRef' = IF activeCategory = name THEN NoInterval ELSE intervalRef
          /\ activeCategory' = IF activeCategory = name THEN NoName ELSE activeCategory
          /\ categories' = Remove(categories, name)
          /\ storage' = saveData(storage, categories', day)
          /\ lastOp' = Op("deleteCategory", name, "true")
          /\ UNCHANGED app
  /\ UNCHANGED <<nextId, now, day, exported, exportedFrom, peer, signals, session>>

\* ------------------------------------------------------------------ clock
\* Wall-clock time passes; interval callbacks may fire late or not at all.
Advance(step) ==
  /\ now + step <= MaxClockSteps * ClockStep
  /\ now' = now + step
  /\ lastOp' = Op("advance", NoName, "ok")
  /\ UNCHANGED <<app, categories, activeCategory, intervalRef, intervals, nextId, day,
                 storage, exported, exportedFrom, peer, signals, session>>

\* The host clock is set back: Date.now() reads earlier. setInterval runs on
\* its own schedule, so each pending callback stays as far away as it was
\* (and an overdue one stays overdue).
Shifted(iv, step) == [iv EXCEPT !.due = Max(@, now) - step]

\* Backward jumps are followed while every category holds less than
\* MaxJumpSeconds.
ClockBack(step) ==
  /\ now - step >= 0
  /\ \A n \in DOMAIN categories : categories[n].time < MaxJumpSeconds
  /\ now' = now - step
  /\ intervals' = {Shifted(iv, step) : iv \in intervals}
  /\ lastOp' = Op("clockBack", NoName, "ok")
  /\ UNCHANGED <<app, categories, activeCategory, intervalRef, nextId, day, storage,
                 exported, exportedFrom, peer, signals, session>>

\* Local midnight passes: toDateString() changes.
Midnight ==
  /\ day < MaxDay
  /\ day' = day + 1
  /\ lastOp' = Op("midnight", NoName, "ok")
  /\ UNCHANGED <<app, categories, activeCategory, intervalRef, intervals, nextId, now,
                 storage, exported, exportedFrom, peer, signals, session>>

\* ---------------------------------------------------------- export, import
\* The object exportDataToJson builds (exportDate, which import never reads,
\* is left out).
Snapshot(st) ==
  [type |-> "object",
   version |-> SnapshotVersion,
   currentDay |-> IF st.today.kind = "absent" THEN JsonNull ELSE Parse(st.today),
   archiveIsArray |-> TRUE,
   archiveData |-> IF st.weekly.kind = "absent" THEN <<>> ELSE Parse(st.weekly)]

\* JSON.stringify(exportData, null, 2)
StringifySnapshot(v) ==
  [kind |-> "json",
   val |-> [v EXCEPT !.currentDay = IF @ = JsonNull THEN @ ELSE JsonDay(@),
                     !.archiveData = JsonLog(@)]]

\* JSON.parse of either blob throws: the catch returns false, no file.
ExportThrows(st) == ParseThrows(st.today) \/ ParseThrows(st.weekly)

\* exportDataToJson()
exportDataToJson ==
  /\ app = "mounted"
  /\ IF ExportThrows(storage)
     THEN /\ UNCHANGED <<exported, exportedFrom>>
          /\ lastOp' = Op("export", NoName, "false")
     ELSE /\ exported' = StringifySnapshot(Snapshot(storage))
          /\ exportedFrom' = storage
          /\ lastOp' = Op("export", NoName, "true")
  /\ UNCHANGED <<app, categories, activeCategory, intervalRef, intervals, nextId, now, day,
                 storage, peer, signals, session>>

\* Files a user can pick besides an exported one.
NullFile == [kind |-> "json", val |-> [type |-> "null"]]
NewerVersionFile ==
  [kind |-> "json",
   val |-> [type |-> "object", version |-> SnapshotVersion + 1, currentDay |-> JsonNull,
            archiveIsArray |-> TRUE, archiveData |-> <<>>]]
\* A file holding a JSON number, and one holding the empty array: typeof []
\* is 'object', its version, currentDay and archiveData are undefined.
NumberFile == [kind |-> "json", val |-> [type |-> "number"]]
ArrayFile ==
  [kind |-> "json",
   val |-> [type |-> "array", version |-> 0, currentDay |-> JsonNull,
            archiveIsArray |-> FALSE, archiveData |-> <<>>]]
UserFiles == {Corrupt, NullFile, NumberFile, ArrayFile, NewerVersionFile}

\* typeof parsedData === 'object' for a non-null value
TypeofObject(v) == v.type \in {"object", "array"}

\* const version = parsedData.version || 1
VersionOf(v) == IF v.version = 0 THEN 1 ELSE v.version

\* importDataFromJson accepting any version.
ImportThrowsAnyVersion(file) ==
  \/ ParseThrows(file)
  \/ ~TypeofObject(Parse(file))

\* The throws inside importDataFromJson's try block.
ImportThrows(file) ==
  \/ ParseThrows(file)
  \/ ~TypeofObject(Parse(file))
  \/ VersionOf(Parse(file)) > SnapshotVersion

\* importDataFromJson replacing the current day and forgetting the archive.
ImportedDayOnly(st, v) ==
  IF v.currentDay # JsonNull
  THEN SetItem(st, "today", StringifyDay(v.currentDay)) ELSE st

\* The two conditional setItem calls of importDataFromJson.
Imported(st, v) ==
  LET st1 == IF v.currentDay # JsonNull
             THEN SetItem(st, "today", StringifyDay(v.currentDay)) ELSE st
  IN  IF v.archiveIsArray
      THEN SetItem(st1, "weekly", StringifyLog(v.archiveData)) ELSE st1

\* importDataFromJson(jsonData); the running app's memory is not reloaded.
importDataFromJson(file) ==
  /\ app = "mounted"
  /\ file.kind # "absent"
  /\ IF ImportThrows(file)
     THEN /\ storage' = storage
          /\ lastOp' = Op("import", NoName, "false")
     ELSE /\ storage' = Imported(storage, Parse(file))
          /\ lastOp' = Op("import", NoName, IF file = exported THEN "exported" ELSE "true")
  /\ UNCHANGED <<app, categories, activeCategory, intervalRef, intervals, nextId, now, day,
                 exported, exportedFrom, peer, signals, session>>

\* clearAllData(), the reset button: both items are removed; the running
\* app's memory is not reloaded.
clearAllData ==
  /\ app = "mounted"
  /\ storage' = RemoveItem(RemoveItem(storage, "today"), "weekly")
  /\ lastOp' = Op("reset", NoName, "ok")
  /\ UNCHANGED <<app, categories, activeCategory, intervalRef, intervals, nextId, now, day,
                 exported, exportedFrom, peer, signals, session>>

\* The environment damages a stored item (truncated write, foreign writer).
StorageFault(key) ==
  /\ storage[key].kind = "json"
  /\ storage' = SetItem(storage, key, Corrupt)
  /\ lastOp' = Op("fault", key, "ok")
  /\ UNCHANGED <<app, categories, activeCategory, intervalRef, intervals, nextId, now, day,
                 exported, exportedFrom, peer, signals, session>>

\* ------------------------------------------------------------ long history
\* A day record as archived on day d, and the log after k archived days, the
\* newest two days back.
PastDay(d, t) ==
  [date |-> d, categories |-> [n \in {"a"} |-> [time |-> t, color |-> "#4C8BF5"]]]
PastLog(k) == [i \in 1..k |-> PastDay(i - k - 2, 1)]

\* The app after about a year of use, closed, yesterday's record still in
\* the current-day blob (idle or with time) or none at all.
InitHistory ==
  /\ app = "closed"
  /\ categories = EmptyStore
  /\ activeCategory = NoName
  /\ intervalRef = NoInterval
  /\ intervals = {}
  /\ nextId = 1
  /\ now = 0
  /\ day = 0
  /\ storage \in
       [today : {Absent, StringifyDay(PastDay(0 - 1, 0)), StringifyDay(PastDay(0 - 1, 1))},
        weekly : {Absent, StringifyLog(PastLog(MaxHistory - 1)),
                  StringifyLog(PastLog(MaxHistory))}]
  /\ exported = Absent
  /\ exportedFrom = [today |-> Absent, weekly |-> Absent]
  /\ peer = NoPeer
  /\ signals = 0
  /\ session = NoSession
  /\ lastOp = Op("init", NoName, "ok")

\* A backup file whose archive is longer than a year.
LongArchiveFile ==
  [kind |-> "json",
   val |-> [type |-> "object", version |-> SnapshotVersion, currentDay |-> JsonNull,
            archiveIsArray |-> TRUE, archiveData |-> PastLog(MaxHistory + ExtraDays)]]

\* createSampleData(): one record per day of the past 28 days, today last;
\* a day on which Math.random() left every category out is skipped (here
\* the n most recent days are the ones kept).
SampleDay(d) ==
  [date |-> d,
   categories |-> [n \in {"Meditation"} |-> [time |-> 300, color |-> "#F1B211"]]]
createSampleData(today, n) == [i \in 1..n |-> SampleDay(today - n + i)]

\* createAndLoadSampleData()
createAndLoadSampleData ==
  /\ app = "mounted"
  /\ \E n \in 0..SampleDays :
       storage' = SetItem(RemoveItem(storage, "weekly"), "weekly",
                          StringifyLog(createSampleData(day, n)))
  /\ lastOp' = Op("sample", NoName, "ok")
  /\ UNCHANGED <<app, categories, activeCategory, intervalRef, intervals, nextId, now, day,
                 exported, exportedFrom, peer, signals, session>>

\* ------------------------------------------------------------- second tab
\* The same app open in another tab: its own useState store over the same
\* localStorage. Its mount loads and saves as Load does.
PeerLoad ==
  LET r == loadTodayData(storage, day) IN
  /\ ~peer.open
  /\ ~r.throws
  /\ peer' = [open |-> TRUE, categories |-> r.categories]
  /\ storage' = saveData(r.storage, r.categories, day)
  /\ lastOp' = Op("peerLoad", NoName, r.res)
  /\ UNCHANGED <<app, categories, activeCategory, intervalRef, intervals, nextId, now, day,
                 exported, exportedFrom, signals, session>>

\* A stopwatch callback of the other tab: it credits a second to a category
\* of that tab's store and the save effect writes that store through. Its
\* seconds are followed up to MaxPeerSeconds.
PeerTick(name) ==
  /\ peer.open
  /\ name \in DOMAIN peer.categories
  /\ peer.categories[name].time < MaxPeerSeconds
  /\ peer' = [peer EXCEPT !.categories = CreditTime(@, name, 1)]
  /\ storage' = saveData(storage, peer'.categories, day)
  /\ lastOp' = Op("peerTick", name, "credited")
  /\ UNCHANGED <<app, categories, activeCategory, intervalRef, intervals, nextId, now, day,
                 exported, exportedFrom, signals, session>>

\* addCategory in the other tab.
PeerAdd(name, color) ==
  /\ peer.open
  /\ Trim(name) # ""
  /\ ~Truthy(peer.categories, name)
  /\ peer' = [peer EXCEPT !.categories = Put(@, name, [time |-> 0, color |-> color])]
  /\ storage' = saveData(storage, peer'.categories, day)
  /\ lastOp' = Op("peerAdd", name, "true")
  /\ UNCHANGED <<app, categories, activeCategory, intervalRef, intervals, nextId, now, day,
                 exported, exportedFrom, signals, session>>

\* ------------------------------------------------------------------- next
\* The page renders one item per category: start, timer, edit and delete
\* are only ever called with a name of the store (Home.tsx).
UserStartCategory == \E n \in DOMAIN categories : startCategory(n)
UserStartTimer == \E n \in DOMAIN categories, d \in 1..MaxDuration : startTimer(n, d)
UserAdd == \E n \in Names \cup BlankNames, c \in Colors : addCategory(n, c)
UserEdit ==
  \E o \in DOMAIN categories, n \in Names \cup BlankNames, c \in Colors :
    editCategory(o, n, c)
UserDelete == \E n \in DOMAIN categories : deleteCategory(n)
UserImport == \E f \in UserFiles \cup {exported} : importDataFromJson(f)
TimerFires ==
  \E iv \in intervals : StopwatchTick(iv) \/ CountdownTick(iv)
Fault == \E k \in {"today", "weekly"} : StorageFault(k)

\* The day tracker within one calendar day: sessions, ticks, the category
\* store and page reloads.
Next ==
  \/ Load
  \/ stopActive
  \/ UserStartCategory
  \/ UserStartTimer
  \/ UserAdd
  \/ UserEdit
  \/ UserDelete
  \/ TimerFires
  \/ Advance(ClockStep)

Spec == Init /\ [][Next]_vars

\* The persistence layer across days: loads and rollovers, stopwatch time,
\* export and import, damaged storage.
NextStorage ==
  \/ Load
  \/ UserAdd
  \/ UserStartCategory
  \/ TimerFires
  \/ Fault
  \/ Advance(StopwatchPeriod)
  \/ Midnight

SpecStorage == Init /\ [][NextStorage]_vars

\* Export, import and reset around the same persistence layer.
UserAddFirst == \E c \in Colors : addCategory("a", c)

NextExchange ==
  \/ Load
  \/ UserAddFirst
  \/ UserStartCategory
  \/ TimerFires
  \/ exportDataToJson
  \/ UserImport
  \/ clearAllData
  \/ Advance(StopwatchPeriod)
  \/ Midnight

SpecExchange == Init /\ [][NextExchange]_vars

\* The historical log around its cap: rollovers into a log of about a year,
\* imports of long archives, reset and sample data.
UserImportArchive == \E f \in {LongArchiveFile, ArrayFile} : importDataFromJson(f)

NextHistory ==
  \/ Load
  \/ UserAddFirst
  \/ UserImportArchive
  \/ clearAllData
  \/ createAndLoadSampleData
  \/ Midnight

SpecHistory == InitHistory /\ [][NextHistory]_vars

\* Sessions under a host clock that can also be set back.
NextClock ==
  \/ Load
  \/ UserAddFirst
  \/ UserStartCategory
  \/ UserStartTimer
  \/ TimerFires
  \/ Advance(ClockStep)
  \/ ClockBack(ClockStep)

SpecClock == Init /\ [][NextClock]_vars

\* The category store as the hook exposes it: add, edit and delete called
\* with any name, next to a running stopwatch.
AllNames == Names \cup {" "} \cup PrototypeNames
ApiAdd == \E n \in AllNames : addCategory(n, "#4C8BF5")
ApiEdit == \E o \in AllNames, n \in AllNames : editCategory(o, n, "#2BA24C")
ApiDelete == \E n \in AllNames : deleteCategory(n)

NextStore ==
  \/ Load
  \/ ApiAdd
  \/ ApiEdit
  \/ ApiDelete
  \/ UserStartCategory
  \/ TimerFires
  \/ Advance(StopwatchPeriod)

SpecStore == Init /\ [][NextStore]_vars

\* The open app across days: every store mutation of the page, both kinds
\* of session, reloads and local midnight.
UserRename ==
  \E o \in DOMAIN categories, n \in Names : editCategory(o, n, "#2BA24C")

NextDays ==
  \/ Load
  \/ UserAddFirst
  \/ UserRename
  \/ UserDelete
  \/ UserStartCategory
  \/ UserStartTimer
  \/ TimerFires
  \/ Advance(StopwatchPeriod)
  \/ Midnight

SpecDays == Init /\ [][NextDays]_vars

\* Two tabs over one localStorage, each adding categories and running a
\* stopwatch.
PeerTicks == \E n \in Names : PeerTick(n)
PeerAdds == \E n \in Names : PeerAdd(n, "#2BA24C")

NextTabs ==
  \/ Load
  \/ UserAddFirst
  \/ UserStartCategory
  \/ TimerFires
  \/ Advance(StopwatchPeriod)
  \/ PeerLoad
  \/ PeerAdds
  \/ PeerTicks

SpecTabs == Init /\ [][NextTabs]_vars

\* ============================================================ properties
StartOps == {"startCategory", "startTimer"}
TickOps == {"stopwatchTick", "countdownTick"}
LiveIds(ivs) == {iv.id : iv \in ivs}

\* C1: after any sequence of start, stop, tick, completion, add, edit and
\* delete steps at most one tick interval is live, and a start call leaves
\* exactly one live interval, the new one on the started category, with
\* every interval that was live before the call cleared.
C1_AtMostOneSession ==
  [][/\ Cardinality(intervals') <= 1
     /\ lastOp'.op \in StartOps =>
          /\ Cardinality(intervals') = 1
          /\ LiveIds(intervals) \cap LiveIds(intervals') = {}
          /\ \A iv \in intervals' : iv.name = lastOp'.name /\ iv.id = intervalRef']_vars

\* C1 witness: a start call was made while a session was running.
C1_Witness ==
  /\ lastOp.op \in StartOps
  /\ lastOp.res = "switched"
  /\ Cardinality(intervals) = 1

\* C2: when a countdown of D >= 1 seconds completes naturally, the time its
\* ticks added to the category since the start is exactly D seconds.
C2_CountdownCreditsDuration ==
  (lastOp.op = "countdownTick" /\ lastOp.res = "completed" /\ session.seconds >= 1)
    => session.credited = session.seconds

\* C3: at each stopwatch tick the time credited since startCategory is the
\* number of whole seconds of wall-clock time elapsed since the start,
\* whatever the schedule of the callbacks.
C3_StopwatchWallClock ==
  (lastOp.op = "stopwatchTick" /\ lastOp.res = "credited")
    => session.credited = FloorSec(now - session.startedAt)

\* Whole seconds a session has been running at time t (a countdown stops
\* counting at its duration).
ElapsedSeconds(ses, t) ==
  IF ses.seconds > 0
  THEN Min(ses.seconds, FloorSec(t - ses.startedAt))
  ELSE FloorSec(t - ses.startedAt)

\* C4: a start call made while another session is running leaves exactly
\* one session, and by then every whole second the previous session had
\* run has been credited to its category.
C4_SwitchCreditsElapsed ==
  [][(lastOp'.op \in StartOps /\ intervals # {}) =>
       /\ Cardinality(intervals') = 1
       /\ session.credited = ElapsedSeconds(session, now)]_vars

\* C5: a tick whose target name is not a key of the store is dropped: the
\* store is unchanged and no error is raised.
C5_OrphanTickDropped ==
  [][(lastOp'.op \in TickOps /\ lastOp'.name \notin DOMAIN categories) =>
       /\ categories' = categories
       /\ app' = "mounted"]_vars

\* C6: renaming the running session's target repoints the session: it keeps
\* running on the new name, and every later tick credits the active category
\* only, without an error and without touching any other entry.
C6_RenameRepointsSession ==
  [][/\ (lastOp'.op = "editCategory" /\ lastOp'.res = "renamed"
          /\ activeCategory = lastOp'.name /\ intervals # {}) =>
         /\ intervals' # {}
         /\ \A iv \in intervals' : iv.name = activeCategory'
     /\ (lastOp'.op \in TickOps /\ activeCategory # NoName) =>
         /\ app' = "mounted"
         /\ \A n \in DOMAIN categories' \ {activeCategory} :
              n \in DOMAIN categories /\ categories'[n] = categories[n]]_vars

\* The persisted day record a load finds when a day boundary was crossed.
StaleRecord(st, today) == st.today.kind = "json" /\ Parse(st.today).date # today
RolloverStep == lastOp'.op = "load" /\ StaleRecord(storage, day)
SomeTimePositive(rec) == \E n \in DOMAIN rec.categories : rec.categories[n].time > 0
LogOf(st) == IF st.weekly.kind = "json" THEN st.weekly.val ELSE <<>>

\* C7: a load that finds a day record of another date appends that record
\* to the historical log when one of its categories has time > 0 and leaves
\* the log as it is when every time is 0; either way the record is no longer
\* the current-day blob and the store for today is empty.
C7_RolloverArchives ==
  [][RolloverStep =>
       LET rec == storage.today.val IN
       /\ IF SomeTimePositive(rec)
          THEN /\ storage'.weekly.kind = "json"
               /\ Len(storage'.weekly.val) >= 1
               /\ storage'.weekly.val[Len(storage'.weekly.val)] = rec
          ELSE storage'.weekly = storage.weekly
       /\ DOMAIN categories' = {}
       /\ storage'.today.kind = "json"
       /\ storage'.today.val.date = day
       /\ DOMAIN storage'.today.val.categories = {}]_vars

\* C7 witness: a rollover appended a second day to a log that held one.
C7_Witness ==
  /\ lastOp.op = "load"
  /\ lastOp.res = "rollover"
  /\ storage.weekly.kind = "json"
  /\ Len(storage.weekly.val) = 2
  /\ DOMAIN categories = {}

\* C8 as stated: at rollover every category of the previous day is still in
\* the store, with its colour kept and its time set to 0.
C8_RolloverKeepsCategories ==
  [][RolloverStep =>
       \A n \in DOMAIN storage.today.val.categories :
         /\ n \in DOMAIN categories'
         /\ categories'[n].color = storage.today.val.categories[n].color
         /\ categories'[n].time = 0]_vars

\* C8 amended: at rollover no category of the previous day is carried over:
\* none of its names is a key of the store or of the new current-day blob
\* afterwards; a category with time > 0 keeps its colour and time in the
\* archived record only.
C8_RolloverDropsCategories ==
  [][RolloverStep =>
       \A n \in DOMAIN storage.today.val.categories :
         /\ n \notin DOMAIN categories'
         /\ n \notin DOMAIN storage'.today.val.categories
         /\ storage.today.val.categories[n].time > 0 =>
              LogOf(storage')[Len(LogOf(storage'))].categories[n]
                = storage.today.val.categories[n]]_vars

\* C8 witness: a rollover of a day that had a category with time > 0.
C8_Witness ==
  /\ lastOp.op = "load"
  /\ lastOp.res = "rollover"
  /\ LogOf(storage) # <<>>
  /\ \E n \in Names : n \in DOMAIN LogOf(storage)[Len(LogOf(storage))].categories
                       /\ n \notin DOMAIN categories

\* C9: a load that finds unparsable content in the current-day blob does
\* not fail: the app is up with an empty store for today.
C9_CorruptDayLoads ==
  [][(lastOp'.op = "load" /\ storage.today.kind = "corrupt") =>
       /\ app' = "mounted"
       /\ DOMAIN categories' = {}]_vars

\* The current-day record of a persisted state (null when there is none).
DayOf(st) == IF st.today.kind = "json" THEN st.today.val ELSE JsonNull
ImportOfExportStep == lastOp'.op = "import" /\ lastOp'.res = "exported"

\* C10 as stated: whatever is persisted at import time, importing the file
\* export wrote from S leaves the current-day record and the log of S.
C10_RoundTripAnyState ==
  [][ImportOfExportStep =>
       /\ ~ImportThrows(exported)
       /\ DayOf(storage') = DayOf(exportedFrom)
       /\ LogOf(storage') = LogOf(exportedFrom)]_vars

\* C10 amended: importing the file export wrote from S succeeds and leaves
\* the log of S; it leaves the current-day record of S when S has one, and
\* when S has none the current-day blob held at import time stays as it is.
C10_RoundTrip ==
  [][ImportOfExportStep =>
       /\ ~ImportThrows(exported)
       /\ LogOf(storage') = LogOf(exportedFrom)
       /\ IF exportedFrom.today.kind = "json"
          THEN DayOf(storage') = DayOf(exportedFrom)
          ELSE storage'.today = storage.today]_vars

\* C10 witness: an exported file was imported over a persisted state whose
\* day record and log both differed from the exported ones, restoring them.
C10_Witness ==
  /\ lastOp.op = "import"
  /\ lastOp.res = "exported"
  /\ LogOf(storage) # <<>>
  /\ DayOf(storage) # JsonNull
  /\ DOMAIN DayOf(storage).categories # DOMAIN categories

\* A file that does not hold a well-formed object, or holds one of a version
\* above the supported one.
NotWellFormed(file) == file.kind # "json" \/ file.val.type \notin {"object", "array"}
TooNew(file) == file.kind = "json" /\ file.val.type = "object" /\ file.val.version > 1

C12_LogAtMost365 == Len(LogOf(storage)) <= MaxHistory

\* C13: a rollover that archives a day with time into a log of 365 entries
\* leaves 365 entries: the former head is gone, the former entries 2..365
\* keep their order and the archived day is the last entry.
C13_EvictsOldest ==
  [][(RolloverStep /\ SomeTimePositive(storage.today.val)
        /\ Len(LogOf(storage)) = MaxHistory) =>
       /\ Len(LogOf(storage')) = MaxHistory
       /\ LogOf(storage') = Append(Tail(LogOf(storage)), storage.today.val)]_vars

\* C13 witness: after a rollover the log holds 365 entries, the newest is
\* yesterday's record and the head is the former second entry.
C13_Witness ==
  /\ lastOp.op = "load"
  /\ lastOp.res = "rollover"
  /\ Len(LogOf(storage)) = MaxHistory
  /\ LogOf(storage)[MaxHistory] = PastDay(0 - 1, 1)
  /\ LogOf(storage)[1] = PastLog(MaxHistory)[2]

\* The deadline of the session started last (meaningful for a countdown).
Deadline(ses) == ses.startedAt + ses.seconds * 1000

\* C14: a countdown tick at now >= deadline ends the session (no active
\* category, no live interval) and requests the completion signal, the only
\* one of that session; a signal is requested by no other step, in
\* particular never for a countdown that was stopped, replaced by another
\* start or whose category was deleted: those steps clear its interval.
C14_CompletionSignalOnce ==
  [][/\ (lastOp'.op = "countdownTick" /\ \E iv \in intervals : now >= iv.endTime) =>
          /\ activeCategory' = NoName
          /\ intervalRef' = NoInterval
          /\ intervals' = {}
          /\ signals = 0
          /\ signals' = 1
     /\ signals' > signals =>
          /\ lastOp'.op = "countdownTick"
          /\ session.seconds >= 1
          /\ now >= Deadline(session)
          /\ \E iv \in intervals : iv.id = intervalRef /\ iv.endTime = Deadline(session)
     /\ (lastOp'.op \in StartOps \cup {"stopActive"}) => intervals \cap intervals' = {}
     /\ (lastOp'.op = "deleteCategory" /\ lastOp'.res = "true"
          /\ activeCategory = lastOp'.name) => intervals' = {}]_vars

\* C14 witness: a countdown has completed and its one signal was requested.
C14_Witness ==
  /\ lastOp.op = "countdownTick"
  /\ lastOp.res = "completed"
  /\ signals = 1
  /\ activeCategory = NoName
  /\ intervals = {}

\* C15: the time a countdown of D seconds has credited never exceeds D.
C15_CountdownWithinDuration ==
  session.seconds >= 1 => session.credited <= session.seconds

\* C15 witness: the first tick of a countdown fired a whole second or more
\* after its deadline.
C15_Witness ==
  /\ lastOp.op = "countdownTick"
  /\ lastOp.res = "completed"
  /\ session.credited = 0
  /\ now >= Deadline(session) + 1000

\* C16: whatever the clock reads, backward jumps included: no time in the
\* store is negative; a step taken while a session targets a category does
\* not lower that category's time; the remaining seconds of a countdown are
\* never negative; and a countdown tick credits no second twice: the
\* seconds credited stay within the larger of those credited before and
\* the whole seconds the clock shows since the start.
C16_ClockJumpsSafe ==
  [][/\ \A n \in DOMAIN categories' : categories'[n].time >= 0
     /\ \A iv \in intervals :
          (iv.name \in DOMAIN categories /\ iv.name \in DOMAIN categories')
            => categories'[iv.name].time >= categories[iv.name].time
     /\ \A iv \in intervals' : iv.mode = "countdown" => remaining(iv, now') >= 0
     /\ lastOp'.op = "countdownTick" =>
          /\ session'.credited >= session.credited
          /\ session'.credited
               <= Max(session.credited, FloorSec(now - session.startedAt))]_vars

\* C16 witness: a countdown that had credited a second ticked again after
\* the clock was set back to before that second, crediting nothing.
C16_Witness ==
  /\ lastOp.op = "countdownTick"
  /\ lastOp.res = "waiting"
  /\ session.credited >= 1
  /\ now < session.startedAt + session.credited * 1000
  /\ \E iv \in intervals : categories[iv.name].time = session.credited

\* C17: addCategory(name, color) returns false and leaves the store as it
\* is when name is empty after trimming or already a key; for any other name
\* it returns true and inserts name with time 0 and the colour, every other
\* entry unchanged.
C17_AddContract ==
  [][lastOp'.op = "addCategory" =>
       \A n \in AllNames, c \in Colors :
         addCategory(n, c) =>
           IF Trim(n) = "" \/ n \in DOMAIN categories
           THEN lastOp'.res = "false" /\ categories' = categories
           ELSE /\ lastOp'.res = "true"
                /\ categories' = Put(categories, n, [time |-> 0, color |-> c])]_vars

\* C18: editCategory(oldName, newName, newColor) returns false and leaves
\* the store and the session as they are when oldName is not a key, or when
\* newName differs from oldName and is already a key.
C18_EditRejects ==
  [][lastOp'.op = "editCategory" =>
       \A o \in {lastOp'.name}, n \in AllNames, c \in Colors :
         (/\ editCategory(o, n, c)
          /\ (o \notin DOMAIN categories \/ (n # o /\ n \in DOMAIN categories))) =>
           /\ lastOp'.res = "false"
           /\ categories' = categories
           /\ activeCategory' = activeCategory
           /\ intervalRef' = intervalRef
           /\ intervals' = intervals]_vars

\* C19: an editCategory(oldName, newName, newColor) of an existing category
\* that succeeds leaves an entry newName with oldName's former time and
\* with newColor, no entry oldName when the names differ, and every other
\* entry as it was.
C19_EditKeepsTime ==
  [][(lastOp'.op = "editCategory" /\ lastOp'.res # "false") =>
       \A o \in {lastOp'.name} \cap DOMAIN categories, n \in AllNames, c \in Colors :
         editCategory(o, n, c) =>
           /\ DOMAIN categories' = (DOMAIN categories \ {o}) \cup {n}
           /\ categories'[n].time = categories[o].time
           /\ categories'[n].color = c
           /\ \A k \in DOMAIN categories \ {o, n} : categories'[k] = categories[k]]_vars

\* C19 witness: a category holding time was renamed next to another one.
C19_Witness ==
  /\ lastOp.op = "editCategory"
  /\ lastOp.res = "renamed"
  /\ lastOp.name \notin DOMAIN categories
  /\ Cardinality(DOMAIN categories) >= 2
  /\ \E n \in DOMAIN categories :
       categories[n].time >= 1 /\ categories[n].color = "#2BA24C"

\* C20: deleteCategory(name) returns false and changes nothing when name is
\* not a key; otherwise it removes exactly that entry, and afterwards the
\* active category, if any, is a key of the store and no live interval
\* targets the deleted name.
C20_DeleteContract ==
  [][lastOp'.op = "deleteCategory" =>
       \A n \in Names :
         deleteCategory(n) =>
           IF n \notin DOMAIN categories
           THEN lastOp'.res = "false" /\ categories' = categories
           ELSE /\ categories' = Remove(categories, n)
                /\ activeCategory' # NoName => activeCategory' \in DOMAIN categories'
                /\ \A iv \in intervals' : iv.name # n]_vars

\* C21: after any add, edit and delete calls, with any arguments, every key
\* of the store names one entry and every entry's time is a defined number
\* that is not negative.
C21_TimesDefined ==
  \A n \in DOMAIN categories :
    /\ categories[n].time # Undefined
    /\ categories[n].time # NaN
    /\ categories[n].time >= 0

\* A load that finds a day record of today's date.
ResumeStep ==
  /\ lastOp'.op = "load"
  /\ storage.today.kind = "json"
  /\ storage.today.val.date = day

\* C22: a load that finds a day record of today's date leaves the store
\* equal to the record's categories (names, times, colours), the historical
\* log blob as it was and the record in place; when the app was running
\* before the reload, no category has less time than it had in memory.
C22_ResumeSameDay ==
  [][ResumeStep =>
       /\ app' = "mounted"
       /\ categories' = storage.today.val.categories
       /\ storage'.weekly = storage.weekly
       /\ storage'.today = storage.today
       /\ app = "mounted" =>
            \A n \in DOMAIN categories :
              n \in DOMAIN categories' /\ categories'[n].time >= categories[n].time]_vars

\* C22 witness: a reload on the same day resumed a category holding time,
\* next to a log that holds an earlier day.
C22_Witness ==
  /\ lastOp.op = "load"
  /\ lastOp.res = "resumed"
  /\ LogOf(storage) # <<>>
  /\ \E n \in DOMAIN categories : categories[n].time >= 1

\* A step that mutates the store: a successful add, edit or delete, a tick
\* that credits, or a load that completes.
MutationStep ==
  \/ lastOp'.op \in {"addCategory", "editCategory", "deleteCategory"} /\ lastOp'.res # "false"
  \/ lastOp'.op \in TickOps /\ lastOp'.res = "credited"
  \/ lastOp'.op = "load" /\ lastOp'.res # "crash"

\* C23: after every mutation of the store (and after any step that leaves
\* the running app with a different store) the current-day blob holds the
\* in-memory categories under the current date key.
C23_WriteThrough ==
  [][(MutationStep \/ (categories' # categories /\ app' = "mounted")) =>
       storage'.today = StringifyDay([date |-> day', categories |-> categories'])]_vars

\* C23 witness: a tick credited time after local midnight had passed in the
\* open app, and the blob carries the new date.
C23_Witness ==
  /\ lastOp.op \in TickOps
  /\ lastOp.res = "credited"
  /\ day >= 1
  /\ lastOp.name \in DOMAIN categories
  /\ storage.today = StringifyDay([date |-> day, categories |-> categories])

\* C24: unparsable content in the historical-log blob reads as an empty
\* history, and a rollover that archives a day over such content completes:
\* the app is up with an empty store for today and the log holds just the
\* archived day.
C24_CorruptLogIsEmpty ==
  [][/\ ParseThrows(storage.weekly) => loadWeeklyData(storage) = <<>>
     /\ (RolloverStep /\ ParseThrows(storage.weekly)
          /\ SomeTimePositive(storage.today.val)) =>
          /\ app' = "mounted"
          /\ DOMAIN categories' = {}
          /\ storage'.weekly = StringifyLog(<<storage.today.val>>)
          /\ loadWeeklyData(storage') = <<storage.today.val>>]_vars

\* C24 witness: a rollover archived a day over an unparsable log.
C24_Witness ==
  /\ lastOp.op = "load"
  /\ lastOp.res = "recovered"
  /\ app = "mounted"
  /\ Len(LogOf(storage)) = 1

\* A step in which the other tab writes.
PeerWrites == lastOp'.op \in {"peerLoad", "peerAdd", "peerTick"}

\* C25: with two tabs, every write leaves the current-day blob equal to the
\* store of the tab that wrote, whatever the other tab holds: nothing of the
\* other tab's store is merged in.
C25_LastWriterWins ==
  [][/\ PeerWrites =>
          storage'.today = StringifyDay([date |-> day', categories |-> peer'.categories])
     /\ MutationStep =>
          storage'.today = StringifyDay([date |-> day', categories |-> categories'])]_vars

\* C25 witness: the other tab wrote last, and seconds this tab has credited
\* are not in the persisted record.
C25_Witness ==
  /\ lastOp.op = "peerTick"
  /\ app = "mounted"
  /\ storage.today = StringifyDay([date |-> day, categories |-> peer.categories])
  /\ \E n \in DOMAIN categories \cap DOMAIN peer.categories :
       /\ categories[n].time >= 1
       /\ storage.today.val.categories[n].time < categories[n].time

\* Seconds credited to name by the step.
CreditedInStep(name) ==
  IF name \in DOMAIN categories' /\ name \in DOMAIN categories
  THEN categories'[name].time - categories[name].time
  ELSE IF name \in DOMAIN categories' THEN categories'[name].time ELSE 0

\* A step that leaves a current-day record under another date than before.
DateKeyChanges ==
  /\ storage.today.kind = "json"
  /\ storage'.today.kind = "json"
  /\ storage'.today.val.date # storage.today.val.date

\* C26: the current-day record holds only seconds credited on its date: a
\* step that writes the record under a new date puts no more seconds in it
\* than the step itself credited, the seconds of the earlier date staying
\* under the earlier date.
C26_SecondsUnderOwnDate ==
  [][DateKeyChanges =>
       \A n \in DOMAIN storage'.today.val.categories :
         storage'.today.val.categories[n].time <= CreditedInStep(n)]_vars

\* C27: once an import has replaced the current-day record, what the
\* running app writes next builds on that record: the tick or add that
\* follows leaves every imported category in place with at least its
\* imported time.
C27_ImportSurvivesWrites ==
  [][(/\ lastOp.op = "import"
      /\ lastOp.res = "exported"
      /\ exported.val.currentDay # JsonNull
      /\ storage.today.kind = "json"
      /\ day' = day
      /\ lastOp'.op \in TickOps \cup {"addCategory"})
     => /\ storage'.today.kind = "json"
        /\ \A n \in DOMAIN storage.today.val.categories :
             /\ n \in DOMAIN storage'.today.val.categories
             /\ storage'.today.val.categories[n].time >= storage.today.val.categories[n].time]_vars

\* The entries of log from position k + 1 on.
DropHead(log, k) == SubSeq(log, k + 1, Len(log))

\* C28: a rollover changes no archived entry and keeps their order: the new
\* log is the old one without some entries at its head, followed by nothing
\* or by the record just archived.
C28_ArchivedImmutable ==
  [][(RolloverStep /\ storage.weekly.kind = "json") =>
       \E k \in 0..Len(LogOf(storage)) :
         \/ LogOf(storage') = DropHead(LogOf(storage), k)
         \/ LogOf(storage') = Append(DropHead(LogOf(storage), k), storage.today.val)]_vars

\* C28 witness: a rollover has archived yesterday behind a long log whose
\* retained entries are the ones archived before, in their order.
C28_Witness ==
  /\ lastOp.op = "load"
  /\ lastOp.res = "rollover"
  /\ Len(LogOf(storage)) = MaxHistory
  /\ LogOf(storage)[MaxHistory] = PastDay(0 - 1, 1)
  /\ \A i \in 1..(MaxHistory - 1) : LogOf(storage)[i] = PastDay(i - MaxHistory - 1, 1)

\* The running app has no session.
Idle == app = "mounted" /\ activeCategory = NoName

\* C29: while the app is idle no tick interval is live, and until the next
\* start call no step changes the time of a category: a stopped stopwatch
\* keeps its reading.
C29_IdleKeepsTime ==
  [][/\ Idle' => intervals' = {} /\ intervalRef' = NoInterval
     /\ (Idle /\ lastOp'.op \notin StartOps) =>
          /\ activeCategory' = NoName
          /\ \A n \in DOMAIN categories \cap DOMAIN categories' :
               categories'[n].time = categories[n].time]_vars

\* C29 witness: a session credited time and ended; the clock has moved on
\* with the app idle and the reading is still what the session credited.
C29_Witness ==
  /\ Idle
  /\ lastOp.op = "advance"
  /\ intervals = {}
  /\ session.credited >= 1
  /\ now >= session.startedAt + (session.credited + 1) * 1000
  /\ \E n \in DOMAIN categories : categories[n].time = session.credited

\* C30: with one tab, a clock that never goes back and no import, the dates
\* of the historical log increase strictly from head to tail: no calendar
\* day is archived twice.
C30_DatesIncrease ==
  \A i, j \in 1..Len(LogOf(storage)) :
    i < j => LogOf(storage)[i].date < LogOf(storage)[j].date

\* C30 witness: two days with time have been archived, one rollover each,
\* and the current-day record is of a third day.
C30_Witness ==
  /\ Len(LogOf(storage)) = 2
  /\ LogOf(storage)[1].date = 0
  /\ LogOf(storage)[2].date = 1
  /\ storage.today.kind = "json"
  /\ storage.today.val.date = 2

====
